---- MODULE Spec2Model ----
(***************************************************************************)
(* Model of src/main.py: the Book/Journal item hierarchy, the Library      *)
(* catalog with its logging decorators, and the FileManager persistence    *)
(* adapter.                                                                *)
(*                                                                         *)
(* Python objects are records carrying their class name in "cls"; None is  *)
(* the record [cls |-> "NoneType"].  A call is recorded in op/arg, what it  *)
(* returned or raised in outcome/ret.  gen is the generator object the     *)
(* last books_by_author call returned: its author, the position of its     *)
(* list iterator, and whether it is suspended or finished; beside these it *)
(* keeps what it has yielded so far and whether the list has stayed as it  *)
(* was since the call, for the properties to refer to.                     *)
(***************************************************************************)
EXTENDS Integers, Sequences, FiniteSets, TLC

VARIABLES items, log, file, op, arg, outcome, ret, gen

vars == <<items, log, file, op, arg, outcome, ret, gen>>

\* ------------------------------------------------------------------ bounds
MaxItems == 3     \* longest catalog explored
MaxLog == 4       \* longest log explored
MaxSave == 2      \* longest list handed to save
MaxFile == 2      \* longest record array found on disk at start

\* ------------------------------------------------------- value universes
Titles == {"T", "U"}
Authors == {"A", "B"}
Years == {1999, 2077}
Volumes == {"v1", "v2"}

None == [cls |-> "NoneType"]

\* BookModel(**kwargs) / JournalModel(**kwargs): the validated fields.  Every
\* value of the universes above has the declared type, so validation passes
\* and keeps the value.
BookModel(kw) == [title |-> kw.title, author |-> kw.author, year |-> kw.year]
JournalModel(kw) ==
    [title |-> BookModel(kw).title, author |-> BookModel(kw).author,
     year |-> BookModel(kw).year, volume |-> kw.volume]

BookModels == {BookModel(kw) : kw \in [title : Titles, author : Authors, year : Years]}
JournalModels ==
    {JournalModel(kw) :
        kw \in [title : Titles, author : Authors, year : Years, volume : Volumes]}

\* Book.__init__
Book(model) ==
    [cls |-> "Book", _title |-> model.title, _author |-> model.author,
     _year |-> model.year]

\* Journal.__init__: super().__init__(model), then the volume
Journal(model) ==
    [cls |-> "Journal", _title |-> Book(model)._title,
     _author |-> Book(model)._author, _year |-> Book(model)._year,
     _volume |-> model.volume]

Books == {Book(m) : m \in BookModels}
Journals == {Journal(m) : m \in JournalModels}
LibraryItems == Books \cup Journals

\* class hierarchy: Journal < Book < LibraryItem
isinstance(x, c) ==
    CASE c = "Journal" -> x.cls = "Journal"
      [] c = "Book" -> x.cls \in {"Book", "Journal"}
      [] OTHER -> FALSE

\* Book.get_info
Book_get_info(self) ==
    "Book: " \o self._title \o " by " \o self._author
        \o " (" \o ToString(self._year) \o ")"

\* Journal.get_info
Journal_get_info(self) ==
    "Journal: " \o self._title \o " by " \o self._author
        \o " (" \o ToString(self._year) \o "), volume: " \o self._volume

\* item.get_info() by dynamic dispatch; None has no such attribute
HasGetInfo(x) == x.cls \in {"Book", "Journal"}
get_info(x) ==
    IF x.cls = "Journal" THEN Journal_get_info(x) ELSE Book_get_info(x)

\* Book.__eq__(self, other)
Book__eq__(self, other) ==
    IF ~isinstance(other, "Book") THEN FALSE
    ELSE /\ self._title = other._title
         /\ self._author = other._author
         /\ self._year = other._year

\* Journal.__eq__(self, other)
Journal__eq__(self, other) ==
    IF ~isinstance(other, "Journal") THEN FALSE
    ELSE Book__eq__(self, other) /\ self._volume = other._volume

\* the __eq__ an object's class provides
Method__eq__(self, other) ==
    IF self.cls = "Journal" THEN Journal__eq__(self, other)
    ELSE Book__eq__(self, other)

\* a faulty dispatch: always the left operand's method
PyEqLeftOnly(v, w) ==
    IF v.cls = "NoneType" /\ w.cls = "NoneType" THEN TRUE
    ELSE IF v.cls = "NoneType" THEN Method__eq__(w, v)
    ELSE Method__eq__(v, w)

\* v == w as Python evaluates it: when type(w) is a proper subclass of
\* type(v) that overrides __eq__, w's method is tried first; None only
\* equals None and otherwise defers to the other operand's method.
PyEq(v, w) ==
    IF v.cls = "NoneType" /\ w.cls = "NoneType" THEN TRUE
    ELSE IF v.cls = "NoneType" THEN Method__eq__(w, v)
    ELSE IF v.cls = "Book" /\ w.cls = "Journal" THEN Method__eq__(w, v)
    ELSE Method__eq__(v, w)

\* item in self._items : a left-to-right scan with ==
RECURSIVE Contains(_, _)
Contains(s, x) ==
    IF s = <<>> THEN FALSE
    ELSE IF PyEq(Head(s), x) THEN TRUE
    ELSE Contains(Tail(s), x)

\* a faulty removal: every equal element goes
RECURSIVE ListRemoveAll(_, _)
ListRemoveAll(s, x) ==
    IF s = <<>> THEN <<>>
    ELSE IF PyEq(Head(s), x) THEN ListRemoveAll(Tail(s), x)
    ELSE <<Head(s)>> \o ListRemoveAll(Tail(s), x)

\* self._items.remove(item): drops the first element equal to item
RECURSIVE ListRemove(_, _)
ListRemove(s, x) ==
    IF s = <<>> THEN <<>>
    ELSE IF PyEq(Head(s), x) THEN Tail(s)
    ELSE <<Head(s)>> \o ListRemove(Tail(s), x)

\* getattr(it, 'author', None) == author
AuthorIs(it, author) == HasGetInfo(it) /\ it._author = author

\* a faulty scan: only a Book can match
RECURSIVE ScanBooksOnly(_, _, _)
ScanBooksOnly(s, i, author) ==
    IF i > Len(s) THEN 0
    ELSE IF s[i].cls = "Book" /\ s[i]._author = author THEN i
    ELSE ScanBooksOnly(s, i + 1, author)

\* Library.books_by_author, the loop from one suspension to the next: the
\* list iterator hands out s[i], s[i+1], ... of the list as it is now,
\* until an element matches (its index is the result) or the list ends (0)
RECURSIVE Scan(_, _, _)
Scan(s, i, author) ==
    IF i > Len(s) THEN 0
    ELSE IF AuthorIs(s[i], author) THEN i
    ELSE Scan(s, i + 1, author)

\* one line of library.log (the timestamp is left out)
LogRecord(msg) == [level |-> "INFO", msg |-> msg]

NoRet == [none |-> TRUE]

\* no generator has been made yet
NoGen == [state |-> "none", author |-> "", pos |-> 0, yielded |-> <<>>,
          clean |-> TRUE]

\* what a call that may change the list leaves of the generator: the object
\* itself is untouched, the note that the list stayed the same is updated
Watch(g, before, after) == [g EXCEPT !.clean = @ /\ before = after]

\* ------------------------------------------------------------ the catalog
CatItems ==
    { Book([title |-> "T", author |-> "A", year |-> 1999]),
      Journal([title |-> "T", author |-> "A", year |-> 1999, volume |-> "v1"]),
      Journal([title |-> "T", author |-> "B", year |-> 1999, volume |-> "v1"]) }

CatArgs == CatItems \cup {None}

\* Library.__init__
Init ==
    /\ items = <<>>
    /\ log = <<>>
    /\ file = [exists |-> FALSE, data |-> <<>>]
    /\ op = "init"
    /\ arg = NoRet
    /\ outcome = "ok"
    /\ ret = NoRet
    /\ gen = NoGen

\* a faulty log_add: the wrapper returns without logging
LogAddNothing(l, item) == l

\* log_add: after the wrapped call, one INFO record
LogAdd(l, item) == Append(l, LogRecord("Added to library: " \o get_info(item)))

\* log_remove: after the wrapped call, one INFO record
LogRemove(l, item) ==
    Append(l, LogRecord("Removed from library: " \o get_info(item)))

\* Library.add_book under @log_add: the append happens first, then the
\* wrapper formats item.get_info(), which raises for an object without it
add_book(item) ==
    /\ Len(items) < MaxItems
    /\ items' = Append(items, item)
    /\ op' = "add_book"
    /\ arg' = [item |-> item]
    /\ ret' = NoRet
    /\ IF HasGetInfo(item)
       THEN /\ Len(log) < MaxLog
            /\ log' = LogAdd(log, item)
            /\ outcome' = "ok"
       ELSE /\ log' = log
            /\ outcome' = "AttributeError"
    /\ gen' = Watch(gen, items, items')
    /\ UNCHANGED file

\* a faulty ensure_exists: the wrapped call runs first, the check after it
ensure_exists_after(s, item) ==
    IF ~Contains(s, item) THEN [raised |-> TRUE, items |-> s]
    ELSE [raised |-> ~Contains(ListRemove(s, item), item),
          items |-> ListRemove(s, item)]

\* ensure_exists around Library.remove_book: raise ValueError when the item
\* is not in the list, otherwise run self._items.remove(item)
ensure_exists(s, item) ==
    IF ~Contains(s, item) THEN [raised |-> TRUE, items |-> s]
    ELSE [raised |-> FALSE, items |-> ListRemove(s, item)]

\* Library.remove_book under @log_remove @ensure_exists.  The ValueError
\* message and the log record both call item.get_info().
remove_book(item) ==
    /\ op' = "remove_book"
    /\ arg' = [item |-> item]
    /\ ret' = NoRet
    /\ items' = ensure_exists(items, item).items
    /\ IF ensure_exists(items, item).raised
       THEN /\ outcome' = IF HasGetInfo(item) THEN "ValueError"
                          ELSE "AttributeError"
            /\ log' = log
       ELSE IF HasGetInfo(item)
       THEN /\ Len(log) < MaxLog
            /\ log' = LogRemove(log, item)
            /\ outcome' = "ok"
       ELSE /\ log' = log
            /\ outcome' = "AttributeError"
    /\ gen' = Watch(gen, items, items')
    /\ UNCHANGED file

\* g = lib.books_by_author(author): the call makes the generator object and
\* runs none of the body
BooksByAuthor(author) ==
    /\ op' = "books_by_author"
    /\ arg' = [author |-> author]
    /\ ret' = NoRet
    /\ outcome' = "ok"
    /\ gen' = [state |-> "suspended", author |-> author, pos |-> 0,
               yielded |-> <<>>, clean |-> TRUE]
    /\ UNCHANGED <<items, log, file>>

\* next(g): the body runs to its next yield, or to its end, which raises
\* StopIteration and finishes the generator for good
GenNext ==
    /\ gen.state # "none"
    /\ op' = "next"
    /\ arg' = NoRet
    /\ IF gen.state = "suspended" /\ Scan(items, gen.pos + 1, gen.author) # 0
       THEN /\ outcome' = "ok"
            /\ ret' = [value |-> items[Scan(items, gen.pos + 1, gen.author)]]
            /\ gen' = [gen EXCEPT
                         !.pos = Scan(items, gen.pos + 1, gen.author),
                         !.yielded = Append(@,
                             items[Scan(items, gen.pos + 1, gen.author)])]
       ELSE /\ outcome' = "StopIteration"
            /\ ret' = NoRet
            /\ gen' = [gen EXCEPT !.state = "done"]
    /\ UNCHANGED <<items, log, file>>

Next ==
    \/ \E item \in CatArgs : add_book(item)
    \/ \E item \in CatArgs : remove_book(item)
    \/ \E author \in Authors : BooksByAuthor(author)
    \/ GenNext

Spec == Init /\ [][Next]_vars

\* --------------------------------------------------------- the file manager
NoFile == [exists |-> FALSE, data |-> <<>>]

\* a faulty save: the volume is never written
SaveEntryNoVolume(it) ==
    [type |-> it.cls, title |-> it._title, author |-> it._author,
     year |-> it._year]

\* FileManager.save, the dict built for one item
SaveEntry(it) ==
    IF isinstance(it, "Journal")
    THEN [type |-> it.cls, title |-> it._title, author |-> it._author,
          year |-> it._year, volume |-> it._volume]
    ELSE [type |-> it.cls, title |-> it._title, author |-> it._author,
          year |-> it._year]

\* FileManager.save, the loop that builds data; reading it._title of an
\* object without it raises before the file is opened
RECURSIVE SaveData(_, _)
SaveData(its, data) ==
    IF its = <<>> THEN [exc |-> "ok", data |-> data]
    ELSE IF ~HasGetInfo(Head(its)) THEN [exc |-> "AttributeError", data |-> data]
    ELSE SaveData(Tail(its), Append(data, SaveEntry(Head(its))))

\* {k: entry[k] for k in keys} succeeds when every key is in the entry
HasKeys(entry, keys) == keys \subseteq DOMAIN entry

\* a faulty loop: a record that cannot be rebuilt is dropped, the rest kept
RECURSIVE LoadDataLenient(_, _)
LoadDataLenient(data, restored) ==
    IF data = <<>> THEN [exc |-> "ok", value |-> restored]
    ELSE IF "type" \notin DOMAIN Head(data)
         THEN LoadDataLenient(Tail(data), restored)
    ELSE IF Head(data).type = "Book"
         THEN IF HasKeys(Head(data), {"title", "author", "year"})
              THEN LoadDataLenient(Tail(data), Append(restored, Book(BookModel(Head(data)))))
              ELSE LoadDataLenient(Tail(data), restored)
    ELSE IF Head(data).type = "Journal"
         THEN IF HasKeys(Head(data), {"title", "author", "year", "volume"})
              THEN LoadDataLenient(Tail(data), Append(restored, Journal(JournalModel(Head(data)))))
              ELSE LoadDataLenient(Tail(data), restored)
    ELSE LoadDataLenient(Tail(data), restored)

\* a faulty loop: a record of an unknown type is rebuilt as a Book
RECURSIVE LoadDataDefaultBook(_, _)
LoadDataDefaultBook(data, restored) ==
    IF data = <<>> THEN [exc |-> "ok", value |-> restored]
    ELSE IF "type" \notin DOMAIN Head(data)
         THEN [exc |-> "KeyError", value |-> <<>>]
    ELSE IF Head(data).type = "Journal"
         THEN IF HasKeys(Head(data), {"title", "author", "year", "volume"})
              THEN LoadDataDefaultBook(Tail(data), Append(restored, Journal(JournalModel(Head(data)))))
              ELSE [exc |-> "KeyError", value |-> <<>>]
    ELSE IF HasKeys(Head(data), {"title", "author", "year"})
         THEN LoadDataDefaultBook(Tail(data), Append(restored, Book(BookModel(Head(data)))))
    ELSE [exc |-> "KeyError", value |-> <<>>]

\* FileManager.load, the loop over the parsed array: entry['type'] and each
\* entry[k] raise KeyError when the key is missing, and the exception
\* discards what was restored so far
RECURSIVE LoadData(_, _)
LoadData(data, restored) ==
    IF data = <<>> THEN [exc |-> "ok", value |-> restored]
    ELSE IF "type" \notin DOMAIN Head(data)
         THEN [exc |-> "KeyError", value |-> <<>>]
    ELSE IF Head(data).type = "Book"
         THEN IF HasKeys(Head(data), {"title", "author", "year"})
              THEN LoadData(Tail(data), Append(restored, Book(BookModel(Head(data)))))
              ELSE [exc |-> "KeyError", value |-> <<>>]
    ELSE IF Head(data).type = "Journal"
         THEN IF HasKeys(Head(data), {"title", "author", "year", "volume"})
              THEN LoadData(Tail(data), Append(restored, Journal(JournalModel(Head(data)))))
              ELSE [exc |-> "KeyError", value |-> <<>>]
    ELSE LoadData(Tail(data), restored)

\* FileManager.save(items): build data, then open the file for writing and
\* dump the array
Save(its) ==
    /\ op' = "save"
    /\ arg' = [items |-> its]
    /\ ret' = NoRet
    /\ outcome' = SaveData(its, <<>>).exc
    /\ file' = IF SaveData(its, <<>>).exc = "ok"
               THEN [exists |-> TRUE, data |-> SaveData(its, <<>>).data]
               ELSE file
    /\ UNCHANGED <<items, log, gen>>

\* FileManager.load(): open the file for reading, parse, rebuild the items
Load ==
    /\ op' = "load"
    /\ arg' = NoRet
    /\ IF ~file.exists
       THEN /\ outcome' = "FileNotFoundError"
            /\ ret' = NoRet
       ELSE /\ outcome' = LoadData(file.data, <<>>).exc
            /\ ret' = IF LoadData(file.data, <<>>).exc = "ok"
                      THEN [value |-> LoadData(file.data, <<>>).value]
                      ELSE NoRet
    /\ UNCHANGED <<items, log, file, gen>>

\* lists of at most n elements of S
SeqsUpTo(S, n) == UNION {[1..k -> S] : k \in 0..n}

\* the lists handed to save
SaveItems ==
    { Book([title |-> "T", author |-> "A", year |-> 1999]),
      Book([title |-> "U", author |-> "B", year |-> 2077]),
      Journal([title |-> "T", author |-> "A", year |-> 1999, volume |-> "v1"]),
      Journal([title |-> "T", author |-> "A", year |-> 1999, volume |-> "v2"]),
      None }

InitPersist ==
    /\ items = <<>>
    /\ log = <<>>
    /\ file = NoFile
    /\ op = "init"
    /\ arg = NoRet
    /\ outcome = "ok"
    /\ ret = NoRet
    /\ gen = NoGen

NextPersist ==
    \/ \E its \in SeqsUpTo(SaveItems, MaxSave) : Save(its)
    \/ Load

SpecPersist == InitPersist /\ [][NextPersist]_vars

\* ------------------------------------------- files written by other hands
FullEntry(type) ==
    [type |-> type, title |-> "T", author |-> "A", year |-> 1999,
     volume |-> "v1"]

Restrict(f, keys) == [k \in keys |-> f[k]]

EntryKeySets ==
    { {"type", "title", "author", "year", "volume"},
      {"type", "title", "author", "year"},
      {"type", "title", "author", "volume"},
      {"type", "author", "year", "volume"},
      {"title", "author", "year", "volume"} }

FileEntries ==
    { Restrict(FullEntry(t), ks) :
        t \in {"Book", "Journal", "Magazine"}, ks \in EntryKeySets }

InitLoad ==
    /\ items = <<>>
    /\ log = <<>>
    /\ file \in {NoFile} \cup
                {[exists |-> TRUE, data |-> d] : d \in SeqsUpTo(FileEntries, MaxFile)}
    /\ op = "init"
    /\ arg = NoRet
    /\ outcome = "ok"
    /\ ret = NoRet
    /\ gen = NoGen

NextLoad == Load

SpecLoad == InitLoad /\ [][NextLoad]_vars

\* ------------------------------------------------------------- equality
\* left == right on two objects
Compare(left, right) ==
    /\ op' = "eq"
    /\ arg' = [left |-> left, right |-> right]
    /\ ret' = [value |-> PyEq(left, right)]
    /\ outcome' = "ok"
    /\ UNCHANGED <<items, log, file, gen>>

NextEq == \E left, right \in LibraryItems \cup {None} : Compare(left, right)

SpecEq == Init /\ [][NextEq]_vars

\* =================================================================== claims
\* structural equality as the specification defines it: same variant and
\* every field equal by value
StructEq(a, b) ==
    /\ a.cls = b.cls
    /\ a._title = b._title
    /\ a._author = b._author
    /\ a._year = b._year
    /\ (a.cls = "Journal" => a._volume = b._volume)

\* the description formats of the specification
DescribedAs(it) ==
    IF it.cls = "Journal"
    THEN "Journal: " \o it._title \o " by " \o it._author \o " ("
             \o ToString(it._year) \o "), volume: " \o it._volume
    ELSE "Book: " \o it._title \o " by " \o it._author \o " ("
             \o ToString(it._year) \o ")"

\* the k-th smallest member of a set of indices
Kth(idx, k) == CHOOSE i \in idx : Cardinality({j \in idx : j <= i}) = k

\* C1: a load that directly follows a successful save of a list of Books and
\* Journals succeeds and returns a list of the same length whose i-th
\* element has the variant and the fields of the i-th saved item.
C1_RoundTrip ==
    [][(op = "save" /\ outcome = "ok" /\ op' = "load") =>
         /\ outcome' = "ok"
         /\ Len(ret'.value) = Len(arg.items)
         /\ \A i \in 1..Len(arg.items) :
               /\ StructEq(ret'.value[i], arg.items[i])
               /\ PyEq(ret'.value[i], arg.items[i])]_vars

\* a Journal and a Book sharing title, author and year came back, in order
C1_Witness ==
    /\ op = "load"
    /\ outcome = "ok"
    /\ Len(ret.value) = 2
    /\ ret.value[1].cls = "Journal"
    /\ ret.value[2].cls = "Book"
    /\ ret.value[1]._title = ret.value[2]._title
    /\ file.data = <<SaveEntry(ret.value[1]), SaveEntry(ret.value[2])>>

\* C2: remove of a Book or Journal raises ValueError (the NotFoundError of
\* the specification) whenever no element of the catalog is structurally
\* equal to it.
C2_RemoveAbsentRaises ==
    [][(/\ op' = "remove_book"
        /\ HasGetInfo(arg'.item)
        /\ ~\E i \in 1..Len(items) :
              HasGetInfo(items[i]) /\ StructEq(items[i], arg'.item))
       => outcome' = "ValueError"]_vars

\* a Journal was refused while a Book with its title, author and year is held
C2_Witness ==
    /\ op = "remove_book"
    /\ outcome = "ValueError"
    /\ arg.item.cls = "Journal"
    /\ \E i \in 1..Len(items) :
          /\ items[i].cls = "Book"
          /\ items[i]._title = arg.item._title
          /\ items[i]._author = arg.item._author
          /\ items[i]._year = arg.item._year

\* C3: a successful remove takes out exactly the first element structurally
\* equal to the item; the other elements stay, in their order.
C3_RemoveFirstOnly ==
    [][(op' = "remove_book" /\ outcome' = "ok") =>
         \E i \in 1..Len(items) :
            /\ HasGetInfo(items[i]) /\ StructEq(items[i], arg'.item)
            /\ \A j \in 1..(i - 1) :
                  ~(HasGetInfo(items[j]) /\ StructEq(items[j], arg'.item))
            /\ items' = SubSeq(items, 1, i - 1) \o SubSeq(items, i + 1, Len(items))
            /\ Len(items') = Len(items) - 1]_vars

\* after the removal a later duplicate of the item is still held, behind
\* another element
C3_Witness ==
    /\ op = "remove_book"
    /\ outcome = "ok"
    /\ Len(items) = 2
    /\ items[1] # arg.item
    /\ items[2] = arg.item

\* C4: on Books and Journals, == is true exactly when both have the same
\* variant and equal fields; in particular it is true of an item and its
\* copy and false between a Book and a Journal, in both directions.
C4_EqualityStructural ==
    (op = "eq" /\ HasGetInfo(arg.left) /\ HasGetInfo(arg.right)) =>
        /\ ret.value = StructEq(arg.left, arg.right)
        /\ (arg.left.cls # arg.right.cls => ret.value = FALSE)
        /\ (arg.left = arg.right => ret.value = TRUE)

\* a Book was compared with a Journal of the same title, author and year
C4_Witness ==
    /\ op = "eq"
    /\ arg.left.cls = "Book"
    /\ arg.right.cls = "Journal"
    /\ arg.left._title = arg.right._title
    /\ arg.left._author = arg.right._author
    /\ arg.left._year = arg.right._year
    /\ ret.value = FALSE

\* C5: every element of the catalog is a Book or a Journal, never None.
C5_NoNullItems ==
    \A i \in 1..Len(items) : items[i] \in LibraryItems

\* how often x occurs in s
Count(s, x) == Cardinality({i \in 1..Len(s) : s[i] = x})

\* C6, as amended: while the catalog has stayed as it was at the call, the
\* elements yielded so far are exactly the elements with the author among
\* those the traversal has passed, each occurrence once and in catalog
\* order; a traversal that has ended has passed them all.  The result is
\* then fixed by the catalog and the author, so a second call gives it again.
C6_FilterByAuthor ==
    (gen.state # "none" /\ gen.clean) =>
        LET upto == IF gen.state = "done" THEN Len(items) ELSE gen.pos
            idx == {i \in 1..upto : HasGetInfo(items[i])
                                      /\ items[i]._author = gen.author}
        IN /\ gen.pos <= Len(items)
           /\ Len(gen.yielded) = Cardinality(idx)
           /\ \A k \in 1..Len(gen.yielded) :
                 gen.yielded[k] = items[Kth(idx, k)]

\* a traversal of three unchanged elements ended after a Journal and a Book
\* of the author, the Journal of the other author passed over
C6_Witness ==
    /\ op = "next"
    /\ outcome = "StopIteration"
    /\ gen.state = "done"
    /\ gen.clean
    /\ Len(items) = 3
    /\ Len(gen.yielded) = 2
    /\ gen.yielded[1].cls = "Journal"
    /\ gen.yielded[2].cls = "Book"
    /\ items[2].cls = "Journal"
    /\ items[2]._author # gen.author

\* C6, as stated, read in the way most favourable to it: when the traversal
\* ends, nothing with another author has been yielded and every element the
\* catalog holds with the author has been yielded as often as it occurs.
C6_Original ==
    [][(gen.state = "suspended" /\ gen'.state = "done") =>
         /\ \A k \in 1..Len(gen'.yielded) :
               gen'.yielded[k]._author = gen'.author
         /\ \A i \in 1..Len(items') :
               (HasGetInfo(items'[i]) /\ items'[i]._author = gen'.author) =>
                   Count(gen'.yielded, items'[i]) >= Count(items', items'[i])]_vars

\* C7: when every record carries a type and every Book or Journal record
\* carries its fields, load succeeds and returns the items of the Book and
\* Journal records in file order; records of any other type yield nothing.
C7_SkipUnknownType ==
    (/\ op = "load"
     /\ file.exists
     /\ \A i \in 1..Len(file.data) :
           /\ "type" \in DOMAIN file.data[i]
           /\ (file.data[i].type = "Book" =>
                 {"title", "author", "year"} \subseteq DOMAIN file.data[i])
           /\ (file.data[i].type = "Journal" =>
                 {"title", "author", "year", "volume"} \subseteq DOMAIN file.data[i]))
    => LET idx == {i \in 1..Len(file.data) :
                     file.data[i].type \in {"Book", "Journal"}}
       IN /\ outcome = "ok"
          /\ Len(ret.value) = Cardinality(idx)
          /\ \A k \in 1..Len(ret.value) :
                /\ ret.value[k].cls = file.data[Kth(idx, k)].type
                /\ ret.value[k]._title = file.data[Kth(idx, k)].title
                /\ ret.value[k]._author = file.data[Kth(idx, k)].author
                /\ ret.value[k]._year = file.data[Kth(idx, k)].year
                /\ (ret.value[k].cls = "Journal" =>
                      ret.value[k]._volume = file.data[Kth(idx, k)].volume)

\* a Magazine record followed by a Book record gave the Book alone
C7_Witness ==
    /\ op = "load"
    /\ outcome = "ok"
    /\ Len(file.data) = 2
    /\ \A i \in 1..2 : "type" \in DOMAIN file.data[i]
    /\ file.data[1].type = "Magazine"
    /\ file.data[2].type = "Book"
    /\ Len(ret.value) = 1
    /\ ret.value[1].cls = "Book"

\* C8: when some Book or Journal record lacks one of its fields, load raises
\* KeyError (the ParseError of the specification) and returns nothing.
C8_MissingFieldFails ==
    (/\ op = "load"
     /\ file.exists
     /\ \E i \in 1..Len(file.data) :
           /\ "type" \in DOMAIN file.data[i]
           /\ \/ /\ file.data[i].type = "Book"
                 /\ ~({"title", "author", "year"} \subseteq DOMAIN file.data[i])
              \/ /\ file.data[i].type = "Journal"
                 /\ ~({"title", "author", "year", "volume"}
                        \subseteq DOMAIN file.data[i]))
    => /\ outcome = "KeyError"
       /\ ret = NoRet

\* a complete Book record came before a Journal record without its volume
C8_Witness ==
    /\ op = "load"
    /\ outcome = "KeyError"
    /\ ret = NoRet
    /\ Len(file.data) = 2
    /\ \A i \in 1..2 : "type" \in DOMAIN file.data[i]
    /\ file.data[1].type = "Book"
    /\ {"title", "author", "year"} \subseteq DOMAIN file.data[1]
    /\ file.data[2].type = "Journal"
    /\ "volume" \notin DOMAIN file.data[2]

\* C9: a successful add appends one "Added" record with the description, a
\* successful remove one "Removed" record with the description, and every
\* other call leaves the log as it was.
C9_LogDiscipline ==
    [][/\ (op' = "add_book" /\ outcome' = "ok") =>
            log' = Append(log, [level |-> "INFO",
                     msg |-> "Added to library: " \o DescribedAs(arg'.item)])
       /\ (op' = "remove_book" /\ outcome' = "ok") =>
            log' = Append(log, [level |-> "INFO",
                     msg |-> "Removed from library: " \o DescribedAs(arg'.item)])
       /\ ~(op' \in {"add_book", "remove_book"} /\ outcome' = "ok") =>
            log' = log]_vars

\* an add and then a remove of the Journal left their two records
C9_Witness ==
    /\ op = "remove_book"
    /\ outcome = "ok"
    /\ Len(log) >= 2
    /\ log[Len(log) - 1].msg = "Added to library: Journal: T by A (1999), volume: v1"
    /\ log[Len(log)].msg = "Removed from library: Journal: T by A (1999), volume: v1"

\* C10: a remove that raises ValueError leaves the catalog as it was.
C10_FailedRemoveKeepsCatalog ==
    [][(op' = "remove_book" /\ outcome' = "ValueError") => items' = items]_vars

\* a remove was refused on a catalog of two elements
C10_Witness ==
    /\ op = "remove_book"
    /\ outcome = "ValueError"
    /\ Len(items) = 2
    /\ \A i \in 1..2 : items[i] # arg.item

====
